---------------------------- MODULE Spec2Model ----------------------------
(***************************************************************************)
(* A model of the maintenance scripts of makro.tepedu.dk.                  *)
(*                                                                         *)
(* A document is a sequence of tokens.  A token is one of the strings the  *)
(* scripts' regular expressions treat as a unit: a tag, a run of white     *)
(* space, an entity, or a word of text (which holds no '<', no '&' and no  *)
(* white space).  Every regular expression and string method of the source *)
(* is modelled by what it does to such a sequence.                         *)
(***************************************************************************)
EXTENDS Integers, Sequences, FiniteSets

VARIABLES
    disk,        \* rebuild_kap2: the content of the file at `path`
    history,     \* rebuild_kap2: the file's content at the start and after every run
    segExit,     \* rebuild_kap2: how the last run ended: "none", "exit1", "done"
    segOpened,   \* rebuild_kap2: whether the last run opened the file for writing
    segments     \* rebuild_kap2: the heading/body pairs of the last run's loop

segVars == <<disk, history, segExit, segOpened, segments>>

VARIABLES
    body,        \* rebuild_kap2 lines 33-48: the body segment being cleaned
    body0,       \* the body segment as the split produced it
    innerX,      \* the content the segment's wrappers were put around
    wrapK,       \* the number of wrappers put around innerX
    iters,       \* the number of times line 42 ran
    pc           \* "strip" (line 33), "loop" (36-45), "sub" (48), "done"

loopVars == <<body, body0, innerX, wrapK, iters, pc>>

VARIABLES
    cdisk,       \* clean_glossary: the content of the file clean_file is called on
    chistory,    \* clean_glossary: that content at the start and after every call
    cleanRet     \* clean_glossary: what the last call returned: "none", "True", "False"

cleanVars == <<cdisk, chistory, cleanRet>>

VARIABLES
    html,        \* extract_chapter_text: the argument of extract_article_text
    text,        \* extract_chapter_text: what extract_article_text returned
    extState     \* "ready" before the call, "returned" after it

extVars == <<html, text, extState>>

VARIABLES
    auditor,     \* which depth script runs: "debug_file" or "check_depth"
    lines,       \* the lines the scan has gone through
    depth,       \* the scripts' depth
    records      \* the lines printed so far

depthVars == <<auditor, lines, depth, records>>

VARIABLES
    batchTool,    \* which batch runs: "extract" or "clean"
    exists,       \* the chapters whose kapitelN.html exists
    chapterHtml,  \* the content of each kapitelN.html
    chapterHtml0, \* that content before the batch
    bi,           \* the loop variable i
    processed,    \* the chapters the loop body has read, in order
    htmlWritten,  \* the chapters whose kapitelN.html was opened for writing
    txtWritten,   \* the chapters whose kapitelN_tekst.txt was written
    messages      \* what was printed

batchVars == <<batchTool, exists, chapterHtml, chapterHtml0, bi, processed,
               htmlWritten, txtWritten, messages>>

vars == <<segVars, loopVars, cleanVars, extVars, depthVars, batchVars>>

---------------------------------------------------------------------------
(* Tokens *)

ART    == "<article>"
EART   == "</article>"
H1     == "<h1>"
H2     == "<h2>"
H2Q    == "<h2 id=\"Quiz\">"
EH2    == "</h2>"
IB     == "<div class=\"info-box\">"
IBM    == "<div class=\"info-box mt-4\">"
DV     == "<div class=\"table-responsive\">"
CD     == "</div>"
NL     == "\n"
SP     == " "
TXT    == "a"
QUIZ   == "Quiz"
PLACEHOLDER == "@@@ARTICLE_PLACEHOLDER@@@"
PS     == "<div class=\"podcast-section\">"
QC     == "<div class=\"quiz-container\">"
LT     == "<span class=\"legal-term\">"
ES     == "</span>"
P      == "<p>"
EP     == "</p>"
NBSP   == "&nbsp;"
SCRIPT  == "<script>"
ESCRIPT == "</script>"
STYLE   == "<style>"
ESTYLE  == "</style>"
TITLE  == "Title"
HELLO  == "Hello"
WORLD  == "world"
H3     == "<h3>"
H4     == "<h4>"
DIVO   == "<div>"

\* a match of <[^>]+>
IsTag(t) ==
    t \in {ART, EART, H1, H2, H2Q, H3, H4, EH2, IB, IBM, DV, DIVO, CD, PS, QC, LT, ES,
           P, EP, SCRIPT, ESCRIPT, STYLE, ESTYLE}

\* a match of </(p|div|h[1-6]|li|tr|th|td)> (extract_chapter_text.py line 16)
IsBlockEnd(t) == t \in {EP, CD, EH2}

\* \s, and what str.strip() removes
IsSpace(t) == t \in {NL, SP}

\* a match of <(?:h1|h2|h3|h4).*?> (rebuild_kap2.py line 19)
IsHeadingOpen(t) == t \in {H1, H2, H2Q, H3, H4}

\* a match of <div\s+class="info-box[^"]*"> (rebuild_kap2.py lines 40, 48)
IsInfoBoxOpen(t) == t \in {IB, IBM}

\* "Quiz" in t, "h1" in t
ContainsQuiz(t) == t \in {H2Q, QUIZ}
ContainsH1(t)   == t \in {H1}

---------------------------------------------------------------------------
(* Sequences *)

SeqsUpTo(S, n) == UNION {[1..k -> S] : k \in 0..n}

Min(S) == CHOOSE x \in S : \A y \in S : x <= y

RECURSIVE LStrip(_)
LStrip(s) == IF s # <<>> /\ IsSpace(Head(s)) THEN LStrip(Tail(s)) ELSE s

RECURSIVE RStrip(_)
RStrip(s) ==
    IF s # <<>> /\ IsSpace(s[Len(s)]) THEN RStrip(SubSeq(s, 1, Len(s) - 1)) ELSE s

\* str.strip()
Strip(s) == RStrip(LStrip(s))

RECURSIVE Flatten(_)
Flatten(ss) == IF ss = <<>> THEN <<>> ELSE Head(ss) \o Flatten(Tail(ss))

---------------------------------------------------------------------------
(* rebuild_kap2.py *)

\* the starts of the matches of <article>.*?</article> (re.DOTALL)
ArtOpens(c) ==
    {i \in 1..Len(c) : c[i] = ART /\ \E j \in (i + 1)..Len(c) : c[j] = EART}

\* re.match in the place of re.search: the container only at the very start
ArticleFoundAtStart(c) == ArtOpens(c) # {} /\ c[1] = ART

\* line 10-11: re.search found the container
ArticleFound(c) == ArtOpens(c) # {}

ArticleStart(c) == Min(ArtOpens(c))

ArticleEnd(c) ==
    Min({j \in (ArticleStart(c) + 1)..Len(c) : c[j] = EART})

\* line 15: match.group(1)
ArticleContent(c) == SubSeq(c, ArticleStart(c), ArticleEnd(c))

\* line 19: re.split with one capturing group: text, heading, text, ...
RECURSIVE SplitFrom(_, _, _)
SplitFrom(a, i, cur) ==
    IF i > Len(a) THEN <<cur>>
    ELSE IF IsHeadingOpen(a[i])
         THEN <<cur, <<a[i]>> >> \o SplitFrom(a, i + 1, <<>>)
         ELSE SplitFrom(a, i + 1, Append(cur, a[i]))

SplitHeadings(a) == SplitFrom(a, 1, <<>>)

\* the pattern of line 40 without its closing </div>$
OuterMatchPrefix(b) == Len(b) >= 2 /\ IsInfoBoxOpen(b[1])

\* line 40: re.match(^<div\s+class="info-box[^"]*">\s*(.*)\s*</div>$)
OuterMatch(b) == Len(b) >= 2 /\ IsInfoBoxOpen(b[1]) /\ b[Len(b)] = CD

\* line 42: m.group(1).strip()
OuterGroup(b) == Strip(LStrip(SubSeq(b, 2, Len(b) - 1)))

\* lines 36-45
RECURSIVE StripLoop(_)
StripLoop(b) == IF OuterMatch(b) THEN StripLoop(OuterGroup(b)) ELSE b

\* line 48
LeadSub(b) == Strip(IF b # <<>> /\ IsInfoBoxOpen(b[1]) THEN Tail(b) ELSE b)

\* lines 33-48
CleanBody(b) == LeadSub(StripLoop(Strip(b)))

\* line 55
WrapDecision(heading) ==
    /\ ~ \E k \in DOMAIN heading : ContainsQuiz(heading[k])
    /\ ~ \E k \in DOMAIN heading : ContainsH1(heading[k])

\* lines 53-58
EmitSegment(heading, b) ==
    heading \o <<NL>> \o
    (IF WrapDecision(heading)
     THEN <<IB, NL>> \o CleanBody(b) \o <<NL, CD, NL>>
     ELSE CleanBody(b) \o <<NL>>)

\* line 25
BodyAt(parts, i) == IF i + 1 <= Len(parts) THEN parts[i + 1] ELSE <<>>

\* lines 21-58: i runs over the headings, parts[2], parts[4], ...
RECURSIVE Reassemble(_, _)
Reassemble(parts, i) ==
    IF i > Len(parts) THEN <<>>
    ELSE EmitSegment(parts[i], BodyAt(parts, i)) \o Reassemble(parts, i + 2)

\* lines 61-64
AddClose(na) ==
    IF RStrip(na) # <<>> /\ RStrip(na)[Len(RStrip(na))] = EART
    THEN na
    ELSE Append(na, EART)

NewArticle(c) ==
    LET parts == SplitHeadings(ArticleContent(c))
    IN  AddClose(parts[1] \o Reassemble(parts, 2))

\* line 69: re.sub replaces every match, left to right
RECURSIVE SubArticles(_)
SubArticles(c) ==
    IF ArticleFound(c)
    THEN SubSeq(c, 1, ArticleStart(c) - 1) \o <<PLACEHOLDER>>
         \o SubArticles(SubSeq(c, ArticleEnd(c) + 1, Len(c)))
    ELSE c

\* line 70: str.replace
ReplacePlaceholder(out, na) ==
    Flatten([k \in DOMAIN out |-> IF out[k] = PLACEHOLDER THEN na ELSE <<out[k]>>])

\* lines 66-70
Output(c) == ReplacePlaceholder(SubArticles(c), NewArticle(c))

\* the heading/body pairs the loop of lines 23-58 goes through
SegmentLog(c) ==
    LET parts == SplitHeadings(ArticleContent(c))
    IN  [k \in 1..((Len(parts) - 1) \div 2) |->
            [heading |-> parts[2 * k],
             body    |-> BodyAt(parts, 2 * k),
             wrapped |-> WrapDecision(parts[2 * k])]]

---------------------------------------------------------------------------
(* Documents rebuild_kap2.py is run on *)

MaxDocLen == 5
MaxInner  == 3
MaxRuns   == 2

FreeAlphabet  == {ART, EART, H2, CD, TXT}
InnerAlphabet == {H1, H2, H2Q, EH2, IB, CD, NL, TXT, QUIZ}

FreeDocs == SeqsUpTo(FreeAlphabet, MaxDocLen)

ArtDocs ==
    {<<ART>> \o inner \o <<EART>> \o tail :
        inner \in SeqsUpTo(InnerAlphabet, MaxInner), tail \in {<<>>, <<TXT>>}}

SegIdle ==
    /\ disk = <<>>
    /\ history = <<>>
    /\ segExit = "none"
    /\ segOpened = FALSE
    /\ segments = <<>>

LoopIdle ==
    /\ body = <<>>
    /\ body0 = <<>>
    /\ innerX = <<>>
    /\ wrapK = 0
    /\ iters = 0
    /\ pc = "idle"

CleanIdle ==
    /\ cdisk = <<>>
    /\ chistory = <<>>
    /\ cleanRet = "none"

ExtIdle ==
    /\ html = <<>>
    /\ text = <<>>
    /\ extState = "idle"

DepthIdle ==
    /\ auditor = "none"
    /\ lines = <<>>
    /\ depth = 0
    /\ records = <<>>

BatchIdle ==
    /\ batchTool = "none"
    /\ exists = {}
    /\ chapterHtml = <<>>
    /\ chapterHtml0 = <<>>
    /\ bi = 0
    /\ processed = <<>>
    /\ htmlWritten = {}
    /\ txtWritten = {}
    /\ messages = <<>>

SegInit ==
    /\ DepthIdle
    /\ BatchIdle
    /\ LoopIdle
    /\ CleanIdle
    /\ ExtIdle
    /\ disk \in FreeDocs \cup ArtDocs
    /\ history = <<disk>>
    /\ segExit = "none"
    /\ segOpened = FALSE
    /\ segments = <<>>

\* lines 6-13: no container: "No article found", sys.exit(1)
RebuildAbort ==
    /\ Len(history) <= MaxRuns
    /\ ~ArticleFound(disk)
    /\ segExit' = "exit1"
    /\ segOpened' = FALSE
    /\ segments' = <<>>
    /\ disk' = disk
    /\ history' = Append(history, disk')
    /\ UNCHANGED <<loopVars, cleanVars, extVars, depthVars, batchVars>>

\* lines 6-73: the container is rebuilt and the file overwritten
RebuildWrite ==
    /\ Len(history) <= MaxRuns
    /\ ArticleFound(disk)
    /\ segExit' = "done"
    /\ segOpened' = TRUE
    /\ segments' = SegmentLog(disk)
    /\ disk' = Output(disk)
    /\ history' = Append(history, disk')
    /\ UNCHANGED <<loopVars, cleanVars, extVars, depthVars, batchVars>>

SegNext == RebuildAbort \/ RebuildWrite

SpecSeg == SegInit /\ [][SegNext]_vars

---------------------------------------------------------------------------
(* rebuild_kap2.py lines 33-48, one statement at a time *)

MaxBodyLen == 3
MaxWrap    == 2

BodyAlphabet == {IB, DV, CD, NL, TXT}

\* k wrappers, each an opening marker and a </div>, around x
RECURSIVE Nest(_, _, _, _)
Nest(x, k, op, pad) ==
    IF k = 0 THEN x
    ELSE <<op>> \o pad \o Nest(x, k - 1, op, pad) \o pad \o <<CD>>

LoopInit ==
    /\ DepthIdle
    /\ BatchIdle
    /\ SegIdle
    /\ CleanIdle
    /\ ExtIdle
    /\ innerX \in SeqsUpTo(BodyAlphabet, MaxBodyLen)
    /\ wrapK \in 0..MaxWrap
    /\ \E op \in {IB, IBM}, pad \in {<<>>, <<NL>>} :
          body0 = pad \o Nest(innerX, wrapK, op, pad) \o pad
    /\ body = body0
    /\ iters = 0
    /\ pc = "strip"

\* line 33
LoopStrip ==
    /\ pc = "strip"
    /\ body' = Strip(body)
    /\ pc' = "loop"
    /\ UNCHANGED <<body0, innerX, wrapK, iters, segVars, cleanVars, extVars, depthVars, batchVars>>

\* lines 40-43: the pattern matches
LoopIter ==
    /\ pc = "loop"
    /\ OuterMatch(body)
    /\ body' = OuterGroup(body)
    /\ iters' = iters + 1
    /\ UNCHANGED <<body0, innerX, wrapK, pc, segVars, cleanVars, extVars, depthVars, batchVars>>

\* lines 44-45: no match, break
LoopBreak ==
    /\ pc = "loop"
    /\ ~OuterMatch(body)
    /\ pc' = "sub"
    /\ UNCHANGED <<body, body0, innerX, wrapK, iters, segVars, cleanVars, extVars, depthVars, batchVars>>

\* line 48
LoopLeadSub ==
    /\ pc = "sub"
    /\ body' = LeadSub(body)
    /\ pc' = "done"
    /\ UNCHANGED <<body0, innerX, wrapK, iters, segVars, cleanVars, extVars, depthVars, batchVars>>

LoopNext == LoopStrip \/ LoopIter \/ LoopBreak \/ LoopLeadSub

SpecLoop == LoopInit /\ [][LoopNext]_vars

---------------------------------------------------------------------------
(* clean_glossary.py *)

\* line 14: re.sub(<span class="legal-term"[^>]*>(.*?)</span>, \1): '.' matches
\* no newline, and the scan goes on after each match
SpanStarts(b) ==
    {p \in DOMAIN b :
        /\ b[p] = LT
        /\ \E q \in (p + 1)..Len(b) :
              b[q] = ES /\ \A r \in (p + 1)..(q - 1) : b[r] # NL /\ b[r] # ES}

RECURSIVE RemoveSpans(_)
RemoveSpans(b) ==
    IF SpanStarts(b) = {} THEN b
    ELSE LET p == Min(SpanStarts(b))
             q == Min({r \in (p + 1)..Len(b) : b[r] = ES})
         IN  SubSeq(b, 1, p - 1) \o SubSeq(b, p + 1, q - 1)
             \o RemoveSpans(SubSeq(b, q + 1, Len(b)))

\* line 18: the ends of <div class="podcast-section">.*?</div>\s*</div> from i
PodcastEnds(c, i) ==
    {m \in (i + 2)..Len(c) :
        /\ c[m] = CD
        /\ \E j \in (i + 1)..(m - 1) :
              c[j] = CD /\ \A r \in (j + 1)..(m - 1) : IsSpace(c[r])}

PodcastStarts(c) == {i \in DOMAIN c : c[i] = PS /\ PodcastEnds(c, i) # {}}

\* line 18: re.sub over every podcast-section block, left to right
RECURSIVE SubPodcast(_)
SubPodcast(c) ==
    IF PodcastStarts(c) = {} THEN c
    ELSE LET i == Min(PodcastStarts(c))
             m == Min(PodcastEnds(c, i))
         IN  SubSeq(c, 1, i - 1) \o RemoveSpans(SubSeq(c, i, m))
             \o SubPodcast(SubSeq(c, m + 1, Len(c)))

\* line 22: the matches of <div class="quiz-container">.*?</div>
QuizStarts(c) ==
    {i \in DOMAIN c : c[i] = QC /\ \E m \in (i + 1)..Len(c) : c[m] = CD}

RECURSIVE SubQuiz(_)
SubQuiz(c) ==
    IF QuizStarts(c) = {} THEN c
    ELSE LET i == Min(QuizStarts(c))
             m == Min({r \in (i + 1)..Len(c) : c[r] = CD})
         IN  SubSeq(c, 1, i - 1) \o RemoveSpans(SubSeq(c, i, m))
             \o SubQuiz(SubSeq(c, m + 1, Len(c)))

\* lines 18-22: new_content
NewContent(c) == SubQuiz(SubPodcast(c))

MaxCleanLen  == 5
MaxCleanRuns == 2

CleanAlphabet == {QC, LT, ES, CD, NL, TXT}

CleanDocs ==
    {<<b>> \o rest : b \in {PS, QC}, rest \in SeqsUpTo(CleanAlphabet, MaxCleanLen)}

CleanInit ==
    /\ DepthIdle
    /\ BatchIdle
    /\ SegIdle
    /\ LoopIdle
    /\ ExtIdle
    /\ cdisk \in CleanDocs
    /\ chistory = <<cdisk>>
    /\ cleanRet = "none"

\* lines 24-27: new_content differs: the file is written, True is returned
CleanFileChanged ==
    /\ Len(chistory) <= MaxCleanRuns
    /\ NewContent(cdisk) # cdisk
    /\ cdisk' = NewContent(cdisk)
    /\ chistory' = Append(chistory, cdisk')
    /\ cleanRet' = "True"
    /\ UNCHANGED <<segVars, loopVars, extVars, depthVars, batchVars>>

\* line 28: nothing to replace: no write, False is returned
CleanFileSame ==
    /\ Len(chistory) <= MaxCleanRuns
    /\ NewContent(cdisk) = cdisk
    /\ cdisk' = cdisk
    /\ chistory' = Append(chistory, cdisk')
    /\ cleanRet' = "False"
    /\ UNCHANGED <<segVars, loopVars, extVars, depthVars, batchVars>>

CleanNext == CleanFileChanged \/ CleanFileSame

SpecClean == CleanInit /\ [][CleanNext]_vars

---------------------------------------------------------------------------
(* extract_chapter_text.py: extract_article_text *)

\* line 16: every block-end tag becomes a newline
BlockEndsToNewlines(raw) ==
    [k \in DOMAIN raw |-> IF IsBlockEnd(raw[k]) THEN NL ELSE raw[k]]

\* lines 18-19: re.sub(<open[^>]*>.*?</close>, '') with re.DOTALL
RECURSIVE RemoveRegions(_, _, _)
RemoveRegions(raw, open, close) ==
    LET starts == {i \in DOMAIN raw :
                      raw[i] = open /\ \E j \in (i + 1)..Len(raw) : raw[j] = close}
    IN  IF starts = {} THEN raw
        ELSE LET i == Min(starts)
                 j == Min({r \in (i + 1)..Len(raw) : raw[r] = close})
             IN  SubSeq(raw, 1, i - 1)
                 \o RemoveRegions(SubSeq(raw, j + 1, Len(raw)), open, close)

\* line 22: every tag becomes one space
TagsToSpaces(raw) == [k \in DOMAIN raw |-> IF IsTag(raw[k]) THEN SP ELSE raw[k]]

\* line 23
DecodeNbsp(t) == [k \in DOMAIN t |-> IF t[k] = NBSP THEN SP ELSE t[k]]

\* line 24: re.sub(\s+, ' '): every run of white space, newlines included,
\* becomes one space
RECURSIVE CollapseWhitespace(_)
CollapseWhitespace(t) ==
    IF t = <<>> THEN <<>>
    ELSE IF IsSpace(Head(t)) THEN <<SP>> \o CollapseWhitespace(LStrip(t))
    ELSE <<Head(t)>> \o CollapseWhitespace(Tail(t))

\* line 25: re.sub( *\n *, '\n'): the spaces around a newline go
PadsNewline(t, r) ==
    /\ t[r] = SP
    /\ \/ \E q \in (r + 1)..Len(t) : t[q] = NL /\ \A k \in r..(q - 1) : t[k] = SP
       \/ \E q \in 1..(r - 1) : t[q] = NL /\ \A k \in (q + 1)..r : t[k] = SP

RECURSIVE DropPads(_, _)
DropPads(t, r) ==
    IF r > Len(t) THEN <<>>
    ELSE (IF PadsNewline(t, r) THEN <<>> ELSE <<t[r]>>) \o DropPads(t, r + 1)

SqueezeNewlines(t) == DropPads(t, 1)

\* lines 11-26
ExtractArticleText(h) ==
    IF ~ArticleFound(h) THEN <<>>
    ELSE LET raw0 == SubSeq(h, ArticleStart(h) + 1, ArticleEnd(h) - 1)
             raw1 == BlockEndsToNewlines(raw0)
             raw2 == RemoveRegions(raw1, SCRIPT, ESCRIPT)
             raw3 == RemoveRegions(raw2, STYLE, ESTYLE)
         IN  Strip(SqueezeNewlines(CollapseWhitespace(DecodeNbsp(TagsToSpaces(raw3)))))

MaxHtmlLen == 4

ExtractAlphabet == {H2, EH2, P, EP, NBSP, NL, SP, HELLO, SCRIPT, ESCRIPT}

\* the document of the specification's example
SpecExample == <<ART, H2, TITLE, EH2, P, HELLO, NBSP, WORLD, EP, EART>>

ExtractDocs ==
    {SpecExample}
    \cup {<<ART>> \o inner \o <<EART>> : inner \in SeqsUpTo(ExtractAlphabet, MaxHtmlLen)}
    \cup SeqsUpTo({ART, EART, HELLO}, MaxHtmlLen)

ExtInit ==
    /\ DepthIdle
    /\ BatchIdle
    /\ SegIdle
    /\ LoopIdle
    /\ CleanIdle
    /\ html \in ExtractDocs
    /\ text = <<>>
    /\ extState = "ready"

\* lines 11-13: no container, "" is returned
ExtractEmpty ==
    /\ extState = "ready"
    /\ ~ArticleFound(html)
    /\ text' = <<>>
    /\ extState' = "returned"
    /\ UNCHANGED <<html, segVars, loopVars, cleanVars, depthVars, batchVars>>

\* lines 14-26
ExtractText ==
    /\ extState = "ready"
    /\ ArticleFound(html)
    /\ text' = ExtractArticleText(html)
    /\ extState' = "returned"
    /\ UNCHANGED <<html, segVars, loopVars, cleanVars, depthVars, batchVars>>

ExtNext == ExtractEmpty \/ ExtractText

SpecExtract == ExtInit /\ [][ExtNext]_vars

---------------------------------------------------------------------------
(* debug_file.py, debug_depth.py, check_depth.py *)

\* line.count('<div'): one for every tag that opens a div
Opens(line) ==
    Cardinality({k \in DOMAIN line : line[k] \in {DIVO, IB, IBM, DV, PS, QC}})

\* line.count('</div>')
Closes(line) == Cardinality({k \in DOMAIN line : line[k] = CD})

\* '<h3>' in line or '<h4>' in line or '<h2>' in line
HasHeadingMarker(line) == \E k \in DOMAIN line : line[k] \in {H2, H3, H4}

\* what a printed line reports as the depth, given the depth before the line
\* and after it: the depth after the line's own tags
ReportedDepthAfter(old, new) == new

\* debug_file.py lines 18, 23 and check_depth.py lines 16, 20, 24: old_depth
ReportedDepth(old, new) == old

MaxLines == 4

SampleLines ==
    { <<>>, <<TXT>>, <<DIVO>>, <<CD>>, <<DIVO, DIVO>>, <<IB, TXT, CD>>,
      <<H2, TXT, EH2>>, <<H2Q, TXT, EH2>>, <<DIVO, H3, TXT>>, <<H4, TXT, CD>> }

DepthInit ==
    /\ SegIdle
    /\ LoopIdle
    /\ CleanIdle
    /\ ExtIdle
    /\ BatchIdle
    /\ auditor \in {"debug_file", "check_depth"}
    /\ lines = <<>>
    /\ depth = 0
    /\ records = <<>>

\* debug_file.py lines 14-23 (debug_depth.py lines 6-15): one line of the loop
DebugFileLine ==
    /\ auditor = "debug_file"
    /\ Len(lines) < MaxLines
    /\ \E line \in SampleLines :
          /\ lines' = Append(lines, line)
          /\ depth' = depth + Opens(line) - Closes(line)
          /\ records' =
                IF Opens(line) # Closes(line) \/ HasHeadingMarker(line)
                THEN Append(records, [line  |-> Len(lines) + 1,
                                      depth |-> ReportedDepth(depth, depth'),
                                      after |-> depth'])
                ELSE records
    /\ UNCHANGED <<auditor, segVars, loopVars, cleanVars, extVars, batchVars>>

\* check_depth.py lines 8-24: one line of the loop
CheckDepthLine ==
    /\ auditor = "check_depth"
    /\ Len(lines) < MaxLines
    /\ \E line \in SampleLines :
          /\ lines' = Append(lines, line)
          /\ depth' = IF Opens(line) > 0 \/ Closes(line) > 0
                      THEN depth + Opens(line) - Closes(line)
                      ELSE depth
          /\ records' =
                IF HasHeadingMarker(line)
                THEN Append(records, [line  |-> Len(lines) + 1,
                                      depth |-> ReportedDepth(depth, depth')])
                ELSE records
    /\ UNCHANGED <<auditor, segVars, loopVars, cleanVars, extVars, batchVars>>

DepthNext == DebugFileLine \/ CheckDepthLine

SpecDepth == DepthInit /\ [][DepthNext]_vars

---------------------------------------------------------------------------
(* extract_chapter_text.py: main, and the loop of clean_glossary.py *)

NumChapters == 8

Chapters == 1..NumChapters

\* two chapter files: one with a container, one with a quiz block to clean
ChapterA == SpecExample
ChapterB == <<QC, LT, TXT, ES, CD>>

BatchInit ==
    /\ SegIdle
    /\ LoopIdle
    /\ CleanIdle
    /\ ExtIdle
    /\ DepthIdle
    /\ batchTool \in {"extract", "clean"}
    /\ \E kind \in [Chapters -> {"missing", "A", "B"}] :
          /\ exists = {i \in Chapters : kind[i] # "missing"}
          /\ chapterHtml = [i \in Chapters |->
                               IF kind[i] = "A" THEN ChapterA
                               ELSE IF kind[i] = "B" THEN ChapterB ELSE <<>>]
    /\ chapterHtml0 = chapterHtml
    /\ bi = 1
    /\ processed = <<>>
    /\ htmlWritten = {}
    /\ txtWritten = {}
    /\ messages = <<>>

\* break in the place of continue: a missing chapter ends the loop
NextChapterBreak(i) == NumChapters + 1

\* extract_chapter_text.py line 34 (continue), clean_glossary.py line 30:
\* the loop goes on with the next chapter
NextChapter(i) == i + 1

\* extract_chapter_text.py lines 32-34: "Skip (missing)", continue
ExtractSkipMissing ==
    /\ batchTool = "extract"
    /\ bi \in Chapters
    /\ bi \notin exists
    /\ messages' = Append(messages, <<"Skip (missing)", bi>>)
    /\ bi' = NextChapter(bi)
    /\ UNCHANGED <<batchTool, exists, chapterHtml, chapterHtml0, processed,
                   htmlWritten, txtWritten>>
    /\ UNCHANGED <<segVars, loopVars, cleanVars, extVars, depthVars>>

\* extract_chapter_text.py lines 35-39
ExtractChapter ==
    /\ batchTool = "extract"
    /\ bi \in Chapters
    /\ bi \in exists
    /\ processed' = Append(processed, bi)
    /\ txtWritten' = txtWritten \cup {bi}
    /\ messages' = Append(messages, <<"Wrote", bi, ExtractArticleText(chapterHtml[bi])>>)
    /\ bi' = bi + 1
    /\ UNCHANGED <<batchTool, exists, chapterHtml, chapterHtml0, htmlWritten>>
    /\ UNCHANGED <<segVars, loopVars, cleanVars, extVars, depthVars>>

\* clean_glossary.py lines 30-32: the file does not exist
CleanSkipMissing ==
    /\ batchTool = "clean"
    /\ bi \in Chapters
    /\ bi \notin exists
    /\ bi' = NextChapter(bi)
    /\ UNCHANGED <<batchTool, exists, chapterHtml, chapterHtml0, processed,
                   htmlWritten, txtWritten, messages>>
    /\ UNCHANGED <<segVars, loopVars, cleanVars, extVars, depthVars>>

\* clean_glossary.py lines 33-36, with clean_file (lines 4-28)
CleanChapter ==
    /\ batchTool = "clean"
    /\ bi \in Chapters
    /\ bi \in exists
    /\ processed' = Append(processed, bi)
    /\ LET new == NewContent(chapterHtml[bi])
       IN  IF new # chapterHtml[bi]
           THEN /\ chapterHtml' = [chapterHtml EXCEPT ![bi] = new]
                /\ htmlWritten' = htmlWritten \cup {bi}
                /\ messages' = Append(messages, <<"Cleaned", bi>>)
           ELSE /\ UNCHANGED <<chapterHtml, htmlWritten>>
                /\ messages' = Append(messages, <<"No changes needed for", bi>>)
    /\ bi' = bi + 1
    /\ UNCHANGED <<batchTool, exists, chapterHtml0, txtWritten>>
    /\ UNCHANGED <<segVars, loopVars, cleanVars, extVars, depthVars>>

BatchNext ==
    ExtractSkipMissing \/ ExtractChapter \/ CleanSkipMissing \/ CleanChapter

SpecBatch == BatchInit /\ [][BatchNext]_vars

---------------------------------------------------------------------------
(* Claims about rebuild_kap2.py *)

Count(s, t) == Cardinality({k \in DOMAIN s : s[k] = t})

\* the document holds an <article> ... </article> region
HasRegion(c) ==
    \E i \in DOMAIN c : \E j \in DOMAIN c : i < j /\ c[i] = ART /\ c[j] = EART

FirstRunRewrote == Len(history) >= 2 /\ HasRegion(history[1])

\* C1: for every document that contains an article container, a second run
\* of the Segmenter leaves the output of the first run as it is:
\* Seg(Seg(D)) = Seg(D).
C1_Idempotent ==
    (Len(history) >= 3 /\ HasRegion(history[1])) => history[3] = history[2]

\* the level 2-4 headings of a document: the opening tag and the content up to
\* the matching closing tag
HeadingStarts(c) ==
    {i \in DOMAIN c : c[i] \in {H2, H2Q} /\ \E j \in (i + 1)..Len(c) : c[j] = EH2}

HeadingAt(c, i) ==
    <<c[i], SubSeq(c, i + 1, Min({j \in (i + 1)..Len(c) : c[j] = EH2}) - 1)>>

HeadingBag(c) ==
    [h \in {HeadingAt(c, i) : i \in HeadingStarts(c)} |->
        Cardinality({i \in HeadingStarts(c) : HeadingAt(c, i) = h})]

\* C2: the multiset of level 2-4 headings (tag and content between the opening
\* and the matching closing tag) is the same before and after one Segmenter
\* run: no wrapper markup is put inside a heading.
C2_HeadingsPreserved ==
    FirstRunRewrote => HeadingBag(history[2]) = HeadingBag(history[1])

\* C5: the Segmenter aborts exactly when the document holds no
\* <article>...</article> region, and an aborted run neither opens the file
\* for writing nor changes its content.
C5_AbortIffNoArticle ==
    Len(history) >= 2 =>
        LET before == history[Len(history) - 1]
        IN  /\ (segExit = "exit1") <=> ~HasRegion(before)
            /\ segExit = "exit1" => (~segOpened /\ disk = before)
            /\ segExit = "done" => segOpened

\* a run aborted on a document that holds an opening marker and text
C5_Witness ==
    /\ segExit = "exit1"
    /\ Len(history) = 2
    /\ Count(disk, ART) >= 1
    /\ Count(disk, TXT) >= 1
    /\ ~segOpened

\* the text of the heading of a heading/body pair: the body up to the first
\* closing heading tag
HeadingTextOf(s) ==
    LET ends == {j \in DOMAIN s.body : s.body[j] = EH2}
    IN  IF ends = {} THEN <<>> ELSE SubSeq(s.body, 1, Min(ends) - 1)

\* C6: a body is left unwrapped if and only if its heading contains "Quiz"
\* (in its text, or in its tag) or the heading is the h1 title; every other
\* body is wrapped.
C6_WrapIffNotQuizOrTitle ==
    \A k \in DOMAIN segments :
        (~segments[k].wrapped) <=>
            (\/ Count(HeadingTextOf(segments[k]), QUIZ) >= 1
             \/ segments[k].heading = <<H2Q>>
             \/ segments[k].heading = <<H1>>)

IsWord(t) == t \in {TXT, QUIZ}

VisibleText(c) == SelectSeq(c, IsWord)

\* C7: a Segmenter run keeps the document's visible text, adds and removes no
\* markup other than info-box opening markers and </div>, and leaves what is
\* before and after the article container as it was.
C7_VisibleTextPreserved ==
    FirstRunRewrote =>
        LET d == history[1]
            o == history[2]
            tailLen == Len(d) - ArticleEnd(d)
        IN  /\ VisibleText(o) = VisibleText(d)
            /\ \A t \in {ART, EART, H1, H2, H2Q, EH2, DV} : Count(o, t) = Count(d, t)
            /\ Len(o) >= Len(d)
            /\ SubSeq(o, 1, ArticleStart(d) - 1) = SubSeq(d, 1, ArticleStart(d) - 1)
            /\ SubSeq(o, Len(o) - tailLen + 1, Len(o)) = SubSeq(d, ArticleEnd(d) + 1, Len(d))

\* C11: for a document with exactly one <article> and exactly one </article>
\* after it, the document written by every successive Segmenter run holds
\* exactly one </article>, and what followed the container in the original
\* document follows that </article> (white space aside), so the marker is the
\* last token of the rebuilt article and lies in no info-box wrapper.
C11_ClosingMarkerUniqueAndLast ==
    (/\ Len(history) >= 2
     /\ Count(history[1], ART) = 1
     /\ Count(history[1], EART) = 1
     /\ HasRegion(history[1])) =>
        \A k \in 2..Len(history) :
            LET d == history[1]
                o == history[k]
            IN  /\ Count(o, EART) = 1
                /\ LStrip(SubSeq(o, Min({j \in DOMAIN o : o[j] = EART}) + 1, Len(o)))
                      = LStrip(SubSeq(d, ArticleEnd(d) + 1, Len(d)))

---------------------------------------------------------------------------
(* Claims about the strip loop *)

\* C8: for a trimmed body that is k >= 1 wrappers around X, the loop stops
\* after k matches with the body equal to the trimmed X; every match shortens
\* the body; a body whose first token is no info-box opening marker or whose
\* last token is no </div> is left as it is.
C8_StripLoop ==
    LET t == Strip(body0)
        x == Strip(innerX)
        wrapped(s) == s # <<>> /\ s[1] \in {IB, IBM} /\ s[Len(s)] = CD
    IN  /\ pc = "loop" => 2 * iters + Len(body) <= Len(t)
        /\ (pc = "sub" /\ wrapK >= 1 /\ ~wrapped(x)) => (body = x /\ iters = wrapK)
        /\ (pc = "sub" /\ ~wrapped(t)) => (body = t /\ iters = 0)

\* the loop has collapsed two nested wrappers around a word
C8_Witness ==
    /\ pc = "sub"
    /\ wrapK = 2
    /\ innerX = <<TXT>>
    /\ body0 = <<IB, IB, TXT, CD, CD>>
    /\ body = <<TXT>>
    /\ iters = 2

---------------------------------------------------------------------------
(* Claims about clean_glossary.py *)

\* C3: stripping the output of a first clean_file call changes nothing: the
\* second call returns False and leaves the file as the first call left it.
C3_StripIdempotent ==
    Len(chistory) >= 3 => (cleanRet = "False" /\ chistory[3] = chistory[2])

---------------------------------------------------------------------------
(* Claims about extract_chapter_text.py *)

\* a word, then a block-end tag, then a word, in a container without scripts
BlockEndBetweenWords(h) ==
    /\ HasRegion(h)
    /\ Count(h, SCRIPT) = 0
    /\ \E i \in DOMAIN h : \E j \in DOMAIN h : \E k \in DOMAIN h :
          /\ ArticleStart(h) < i /\ i < j /\ j < k /\ k < ArticleEnd(h)
          /\ h[i] \in {TITLE, HELLO, WORLD}
          /\ h[j] \in {EP, CD, EH2}
          /\ h[k] \in {TITLE, HELLO, WORLD}

\* C4: the closing marker of a block-level tag becomes a newline in the
\* returned text, so the text of two consecutive block elements is separated
\* by a newline; <article><h2>Title</h2><p>Hello&nbsp;world</p></article>
\* returns "Title\nHello world".
C4_BlockEndNewline ==
    extState = "returned" =>
        /\ html = SpecExample => text = <<TITLE, NL, HELLO, SP, WORLD>>
        /\ BlockEndBetweenWords(html) => Count(text, NL) >= 1

---------------------------------------------------------------------------
(* Claims about the depth scripts *)

\* opens minus closes of a line, and its sum over the first n lines
NetOf(line) ==
    Cardinality({k \in DOMAIN line : line[k] \in {DIVO, IB, DV}})
        - Cardinality({k \in DOMAIN line : line[k] = CD})

RECURSIVE NetSum(_, _)
NetSum(ls, n) == IF n = 0 THEN 0 ELSE NetSum(ls, n - 1) + NetOf(ls[n])

HeadingLine(line) == Count(line, H2) + Count(line, H3) + Count(line, H4) >= 1

RecordLines == {records[k].line : k \in DOMAIN records}

\* every record reports the sum over the lines before its own, the records
\* come in line order, and the depth is the sum over all lines
DepthIsRunningSum ==
    /\ \A k \in DOMAIN records : records[k].depth = NetSum(lines, records[k].line - 1)
    /\ \A k \in DOMAIN records : \A m \in DOMAIN records :
          k < m => records[k].line < records[m].line
    /\ depth = NetSum(lines, Len(lines))

\* C9 as stated: in debug_file.py, debug_depth.py and check_depth.py alike a
\* record is emitted for every line whose opens differ from its closes or that
\* holds an h2, h3 or h4 marker, and for no other line.
C9_RecordPerChangeOrHeading ==
    /\ DepthIsRunningSum
    /\ RecordLines =
          {n \in DOMAIN lines : NetOf(lines[n]) # 0 \/ HeadingLine(lines[n])}

\* C9 as amended: the depth reported for line n is the sum of opens minus
\* closes over lines 1..n-1 and the final depth the sum over all lines;
\* debug_file.py and debug_depth.py emit a record for exactly the lines whose
\* opens differ from their closes or that hold a heading marker;
\* check_depth.py emits a record for exactly the lines that hold a heading
\* marker.
C9_DepthAudit ==
    /\ DepthIsRunningSum
    /\ auditor = "debug_file" =>
          RecordLines =
             {n \in DOMAIN lines : NetOf(lines[n]) # 0 \/ HeadingLine(lines[n])}
    /\ auditor = "check_depth" =>
          RecordLines = {n \in DOMAIN lines : HeadingLine(lines[n])}

\* check_depth.py has scanned the balanced four-line snippet to its end
C9_Witness ==
    /\ auditor = "check_depth"
    /\ lines = << <<DIVO>>, <<DIVO>>, <<CD>>, <<CD>> >>
    /\ depth = 0
    /\ records = <<>>

---------------------------------------------------------------------------
(* Claims about the batches *)

\* the members of S up to n, in increasing order
RECURSIVE Ascending(_, _)
Ascending(S, n) ==
    IF n = 0 THEN <<>>
    ELSE Ascending(S, n - 1) \o (IF n \in S THEN <<n>> ELSE <<>>)

\* C10: a missing chapter is skipped and the batch goes on: when the loop has
\* passed chapter n, every existing chapter up to n has been processed exactly
\* once, in increasing order, and the loop only ends after the last chapter;
\* extract_chapter_text writes kapitelN_tekst.txt for the existing chapters
\* only, and never a kapitelN.html.
C10_BatchSkipsMissing ==
    batchTool # "none" =>
        /\ bi \in 1..(NumChapters + 1)
        /\ processed = Ascending(exists, bi - 1)
        /\ Len(messages) = (IF batchTool = "extract" THEN bi - 1 ELSE Len(processed))
        /\ batchTool = "extract" =>
              /\ chapterHtml = chapterHtml0
              /\ htmlWritten = {}
              /\ txtWritten = {n \in exists : n < bi}
        /\ batchTool = "clean" => txtWritten = {}

\* extract_chapter_text has finished a batch in which chapter 2 is missing
\* and chapters 1 and 3 exist
C10_Witness ==
    /\ batchTool = "extract"
    /\ bi = NumChapters + 1
    /\ exists = {1, 3}
    /\ processed = <<1, 3>>
    /\ txtWritten = {1, 3}

===========================================================================
